---- MODULE Spec2Model ----
(***************************************************************************)
(* The borrowing lifecycle of the library-management backend               *)
(* (src/backend/app.py): the tables books, readers and borrows, and the    *)
(* request handlers create_borrow, return_book, renew_book, apply_fine,    *)
(* update_borrow_status and update_reader.  A handler is a sequence of     *)
(* storage calls; every storage call is one step, so handlers of requests  *)
(* in flight interleave between their calls.                               *)
(***************************************************************************)
EXTENDS Integers, Sequences, FiniteSets, TLC

\* ------------------------------------------------------------------ bounds

\* The ledger holds at most this many borrow ids (AUTO_INCREMENT is capped).
MaxBorrows == 2
\* The clock runs from day 1 to this day.
MaxToday == 2
\* The catalogue holds at most this many books.
MaxBooks == 3

\* ------------------------------------------------------- program constants

\* renew_book: "最多续借2次"
MaxRenewCount == 2
\* renew_book: extend_days must lie in 1..90, and is 30 when omitted
MinExtendDays == 1
MaxExtendDays == 90
DefaultExtendDays == 30

\* ------------------------------------------------------------- input sets

\* Request handlers that can be in flight at once.
Procs == {"p1", "p2"}
\* The one handler of the sequential specifications.
SeqProcs == {"p1"}

\* Rows of the tables at the start; id 3 names no book and no reader.
BookIds == {1, 2}
ReaderIds == {1, 2}
BookArgs == {1, 2, 3}
ReaderArgs == {1, 2, 3}
BorrowArgs == 1 .. (MaxBorrows + 1)
DayArgs == {-1, 0, 1}
\* The loan period of the specifications that are not about dates.
OneDay == {1}
ExtendArgs == {MinExtendDays - 1, MinExtendDays, DefaultExtendDays,
               MaxExtendDays, MaxExtendDays + 1}
\* The JSON values "days" may carry: an integer, a boolean (Python's bool is
\* a subclass of int: False is 0 and True is 1), or a string.
ExtendValues ==
    [kind : {"int"}, n : ExtendArgs]
        \cup [kind : {"bool"}, n : {0, 1}]
        \cup [kind : {"str"}, n : {DefaultExtendDays}]
\* The one renewal period of the specifications that are not about it.
DefaultExtend == {[kind |-> "int", n |-> DefaultExtendDays]}
FineArgs == {-5, 0, 5}
MaxCountArgs == {1, 2}
\* The limits a body may carry: update_reader takes any number.
AnyCountArgs == {-1, 0, 1, 2}
StatusArgs == {"borrowed", "returned", "reserved", "damaged", "lost", "fined",
               "overdue"}

\* SQL NULL, and a value v of a nullable column.
NULL == <<>>
Val(v) == <<v>>

VARIABLES
    books,      \* table books: id -> [status]
    readers,    \* table readers: id -> [status, max_borrow_count]
    borrows,    \* table borrows: id -> row (committed rows only)
    nextId,     \* AUTO_INCREMENT counter of borrows
    today,      \* datetime.now().date() / CURDATE()
    dbUp,       \* whether the storage answers (a call fails while it is down)
    proc        \* per handler: its position, its request and its locals

vars == <<books, readers, borrows, nextId, today, dbUp, proc>>
db == <<books, readers, borrows, nextId>>

\* A handler that serves no request.
IdleProc ==
    [pc |-> "idle", op |-> "none", given |-> TRUE, kind |-> "int",
     reader_id |-> 0, book_id |-> 0, borrow_id |-> 0, days |-> 0,
     amount |-> 0, status |-> "", new_max |-> 0,
     max_borrow_count |-> 0, date |-> 0, due_date |-> 0,
     result |-> "", ret |-> 0, logged |-> << >>, view |-> << >>,
     data |-> << >>]

\* The row create_borrow inserts: the columns the INSERT names, and the
\* schema's defaults for the columns it leaves out.
ColumnDefaults == [return_date |-> NULL, renew_count |-> 0, fine_amount |-> NULL]

NewBorrowRow(reader_id, book_id, borrow_date, due_date) ==
    [reader_id |-> reader_id, book_id |-> book_id,
     borrow_date |-> borrow_date, due_date |-> due_date,
     return_date |-> ColumnDefaults.return_date,
     renew_count |-> ColumnDefaults.renew_count,
     fine_amount |-> ColumnDefaults.fine_amount,
     status |-> "borrowed"]

\* SELECT COUNT(*) FROM borrows WHERE reader_id = r AND status = 'borrowed'
CountBorrowed(r) ==
    Cardinality({i \in DOMAIN borrows :
                    borrows[i].reader_id = r /\ borrows[i].status = "borrowed"})

\* log_operation(...): the rows this call adds to system_logs, the action
\* and the target id of each.  The INSERT goes through execute_query, which
\* swallows a failure: while the storage is down no row is added and the
\* caller is not told.
log_operation(action, target_id) ==
    IF dbUp THEN << [action |-> action, target_id |-> target_id] >> ELSE << >>

\* The handler logs the operation and answers with success.
LogAndRespond(p, action, target_id, ret) ==
    proc' = [proc EXCEPT ![p].pc = "done", ![p].result = "ok", ![p].ret = ret,
                         ![p].logged = log_operation(action, target_id)]

\* The handler answers: the request is over, its response is `res`.
Respond(p, res) ==
    proc' = [proc EXCEPT ![p].pc = "done", ![p].result = res]

Goto(p, pc) ==
    proc' = [proc EXCEPT ![p].pc = pc]

Init ==
    /\ books = [b \in BookIds |-> [status |-> "available"]]
    /\ readers = [r \in ReaderIds |->
                    IF r = 1 THEN [status |-> "active", max_borrow_count |-> 1]
                    ELSE [status |-> "inactive", max_borrow_count |-> 1]]
    /\ borrows = << >>
    /\ nextId = 1
    /\ today = 1
    /\ dbUp = TRUE
    /\ proc = [p \in Procs |-> IdleProc]

\* ------------------------------------------------------------ environment

\* The date changes.
Tick ==
    /\ today < MaxToday
    /\ today' = today + 1
    /\ UNCHANGED <<db, dbUp, proc>>

\* The storage stops answering / answers again.
DbDown ==
    /\ dbUp
    /\ dbUp' = FALSE
    /\ UNCHANGED <<db, today, proc>>

DbRestored ==
    /\ ~dbUp
    /\ dbUp' = TRUE
    /\ UNCHANGED <<db, today, proc>>

\* The response has been sent; the handler is free for the next request.
Finish(p) ==
    /\ proc[p].pc = "done"
    /\ proc' = [proc EXCEPT ![p] = IdleProc]
    /\ UNCHANGED <<db, today, dbUp>>

\* ---------------------------------------------------------- create_borrow

\* POST /api/borrows: the required fields must be present.
CreateBorrowRequest(p, day_args) ==
    /\ proc[p].pc = "idle"
    /\ \E r \in ReaderArgs, b \in BookArgs, d \in day_args, g \in BOOLEAN :
         proc' = [proc EXCEPT ![p] =
                    [IdleProc EXCEPT !.op = "create_borrow", !.given = g,
                                     !.reader_id = r, !.book_id = b, !.days = d,
                                     !.pc = IF g THEN "cb_reader" ELSE "done",
                                     !.result = IF g THEN "" ELSE "ValidationError"]]
    /\ UNCHANGED <<db, today, dbUp>>

\* The reader must exist and be active.
CbReadReader(p) ==
    /\ proc[p].pc = "cb_reader"
    /\ LET r == proc[p].reader_id
           found == dbUp /\ r \in DOMAIN readers
       IN  IF ~found THEN Respond(p, "ReaderNotEligible")
           ELSE IF readers[r].status # "active" THEN Respond(p, "ReaderNotEligible")
           ELSE proc' = [proc EXCEPT ![p].pc = "cb_book",
                                     ![p].max_borrow_count = readers[r].max_borrow_count]
    /\ UNCHANGED <<db, today, dbUp>>

\* Mutant of CbReadBook: a lost book is not turned away.
CbReadBookLostAllowed(p) ==
    /\ proc[p].pc = "cb_book"
    /\ LET b == proc[p].book_id
           found == dbUp /\ b \in DOMAIN books
       IN  IF ~found THEN Respond(p, "BookNotFound")
           ELSE IF books[b].status = "borrowed" THEN Respond(p, "BookUnavailable")
           ELSE Goto(p, "cb_count")
    /\ UNCHANGED <<db, today, dbUp>>

\* The book must exist and be neither lost nor borrowed.
CbReadBook(p) ==
    /\ proc[p].pc = "cb_book"
    /\ LET b == proc[p].book_id
           found == dbUp /\ b \in DOMAIN books
       IN  IF ~found THEN Respond(p, "BookNotFound")
           ELSE IF books[b].status = "lost" THEN Respond(p, "BookLost")
           ELSE IF books[b].status = "borrowed" THEN Respond(p, "BookUnavailable")
           ELSE Goto(p, "cb_count")
    /\ UNCHANGED <<db, today, dbUp>>

\* Mutant of LimitReached: the limit is reached one loan too late.
LimitReachedStrict(count, max_borrow_count) == count > max_borrow_count

\* Whether the reader's count of borrowed records reaches the limit read
\* before.
LimitReached(count, max_borrow_count) == count >= max_borrow_count

\* Mutant of CbCountBorrows: a request turned away at the limit leaves a
\* 'reserved' record behind.
CbCountBorrowsWaitlisted(p) ==
    /\ proc[p].pc = "cb_count"
    /\ IF dbUp /\ LimitReached(CountBorrowed(proc[p].reader_id), proc[p].max_borrow_count)
       THEN /\ Respond(p, "BorrowLimitReached")
            /\ borrows' = (nextId :> [NewBorrowRow(proc[p].reader_id, proc[p].book_id,
                                                   today, today + proc[p].days)
                                         EXCEPT !.status = "reserved"])
                           @@ borrows
            /\ nextId' = nextId + 1
       ELSE /\ proc' = [proc EXCEPT ![p].pc = "cb_connect",
                                    ![p].date = today,
                                    ![p].due_date = today + proc[p].days]
            /\ UNCHANGED <<borrows, nextId>>
    /\ UNCHANGED <<books, readers, today, dbUp>>

\* The reader's count of borrowed records is read; a count that could not
\* be read (None) skips the comparison.  Then the dates are computed.
CbCountBorrows(p) ==
    /\ proc[p].pc = "cb_count"
    /\ IF dbUp /\ LimitReached(CountBorrowed(proc[p].reader_id), proc[p].max_borrow_count)
       THEN Respond(p, "BorrowLimitReached")
       ELSE proc' = [proc EXCEPT ![p].pc = "cb_connect",
                                 ![p].date = today,
                                 ![p].due_date = today + proc[p].days]
    /\ UNCHANGED <<db, today, dbUp>>

\* get_db_connection() for the transaction.  (The ledger's bound: no
\* transaction starts when AUTO_INCREMENT has no id left for it.)
CbConnect(p) ==
    /\ proc[p].pc = "cb_connect"
    /\ IF dbUp
       THEN /\ nextId + Cardinality({q \in Procs : proc[q].pc = "cb_insert"}) <= MaxBorrows
            /\ Goto(p, "cb_insert")
       ELSE Respond(p, "StorageError")
    /\ UNCHANGED <<db, today, dbUp>>

\* The foreign keys of borrows: a row is accepted only while the reader and
\* the book it refers to exist.
ReferencedRowsExist(reader_id, book_id) ==
    /\ reader_id \in DOMAIN readers
    /\ book_id \in DOMAIN books

\* Mutant of CbInsert: the connection commits every statement at once.
CbInsertAutocommit(p) ==
    /\ proc[p].pc = "cb_insert"
    /\ IF dbUp /\ ReferencedRowsExist(proc[p].reader_id, proc[p].book_id)
       THEN /\ proc' = [proc EXCEPT ![p].pc = "cb_update", ![p].borrow_id = nextId]
            /\ nextId' = nextId + 1
            /\ borrows' = (nextId :> NewBorrowRow(proc[p].reader_id, proc[p].book_id,
                                                  proc[p].date, proc[p].due_date))
                           @@ borrows
       ELSE /\ Respond(p, "StorageError")
            /\ UNCHANGED <<nextId, borrows>>
    /\ UNCHANGED <<books, readers, today, dbUp>>

\* INSERT INTO borrows, inside the transaction: the row is not visible
\* before the commit; the id is drawn at once (cursor.lastrowid).  A row
\* the foreign keys refuse raises, and the handler rolls back.
CbInsert(p) ==
    /\ proc[p].pc = "cb_insert"
    /\ IF dbUp /\ ReferencedRowsExist(proc[p].reader_id, proc[p].book_id)
       THEN /\ proc' = [proc EXCEPT ![p].pc = "cb_update", ![p].borrow_id = nextId]
            /\ nextId' = nextId + 1
       ELSE /\ Respond(p, "StorageError")
            /\ UNCHANGED nextId
    /\ UNCHANGED <<books, readers, borrows, today, dbUp>>

\* UPDATE books SET status = 'borrowed', inside the transaction.
CbUpdateBook(p) ==
    /\ proc[p].pc = "cb_update"
    /\ IF dbUp THEN Goto(p, "cb_commit") ELSE Respond(p, "StorageError")
    /\ UNCHANGED <<db, today, dbUp>>

\* Mutant of CbCommit: the book's status is not written.
CbCommitBorrowOnly(p) ==
    /\ proc[p].pc = "cb_commit"
    /\ IF dbUp
       THEN /\ borrows' = (proc[p].borrow_id :> NewBorrowRow(proc[p].reader_id,
                              proc[p].book_id, proc[p].date, proc[p].due_date))
                          @@ borrows
            /\ Goto(p, "cb_log")
       ELSE /\ Respond(p, "StorageError")
            /\ UNCHANGED borrows
    /\ UNCHANGED <<books, readers, nextId, today, dbUp>>

\* connection.commit(): both writes become visible together; a failure
\* rolls both back.
CbCommit(p) ==
    /\ proc[p].pc = "cb_commit"
    /\ IF dbUp
       THEN /\ borrows' = (proc[p].borrow_id :> NewBorrowRow(proc[p].reader_id,
                              proc[p].book_id, proc[p].date, proc[p].due_date))
                          @@ borrows
            /\ books' = [b \in DOMAIN books |->
                           IF b = proc[p].book_id
                           THEN [books[b] EXCEPT !.status = "borrowed"]
                           ELSE books[b]]
            /\ Goto(p, "cb_log")
       ELSE /\ Respond(p, "StorageError")
            /\ UNCHANGED <<books, borrows>>
    /\ UNCHANGED <<readers, nextId, today, dbUp>>

\* Mutant of CbLog: a failed log_operation fails the request.
CbLogChecked(p) ==
    /\ proc[p].pc = "cb_log"
    /\ IF dbUp
       THEN LogAndRespond(p, "create_borrow", proc[p].borrow_id, proc[p].borrow_id)
       ELSE Respond(p, "StorageError")
    /\ UNCHANGED <<db, today, dbUp>>

\* log_operation, then 201 with the new id.
CbLog(p) ==
    /\ proc[p].pc = "cb_log"
    /\ LogAndRespond(p, "create_borrow", proc[p].borrow_id, proc[p].borrow_id)
    /\ UNCHANGED <<db, today, dbUp>>

CreateBorrow(p, day_args) ==
    \/ CreateBorrowRequest(p, day_args)
    \/ CbReadReader(p)
    \/ CbReadBook(p)
    \/ CbCountBorrows(p)
    \/ CbConnect(p)
    \/ CbInsert(p)
    \/ CbUpdateBook(p)
    \/ CbCommit(p)
    \/ CbLog(p)

\* ------------------------------------------------------------ return_book

\* POST /api/borrows/<id>/return
ReturnBookRequest(p) ==
    /\ proc[p].pc = "idle"
    /\ \E i \in BorrowArgs :
         proc' = [proc EXCEPT ![p] =
                    [IdleProc EXCEPT !.op = "return_book", !.borrow_id = i,
                                     !.pc = "rb_read"]]
    /\ UNCHANGED <<db, today, dbUp>>

\* Mutant of RbRead: the lookup does not ask for status = 'borrowed'.
RbReadAnyStatus(p) ==
    /\ proc[p].pc = "rb_read"
    /\ LET i == proc[p].borrow_id
           found == dbUp /\ i \in DOMAIN borrows
       IN  IF ~found THEN Respond(p, "NotFound")
           ELSE proc' = [proc EXCEPT ![p].pc = "rb_update_borrow",
                                     ![p].book_id = borrows[i].book_id,
                                     ![p].date = today]
    /\ UNCHANGED <<db, today, dbUp>>

\* SELECT * FROM borrows WHERE id = %s AND status = 'borrowed'
RbRead(p) ==
    /\ proc[p].pc = "rb_read"
    /\ LET i == proc[p].borrow_id
           found == dbUp /\ i \in DOMAIN borrows /\ borrows[i].status = "borrowed"
       IN  IF ~found THEN Respond(p, "NotFound")
           ELSE proc' = [proc EXCEPT ![p].pc = "rb_update_borrow",
                                     ![p].book_id = borrows[i].book_id,
                                     ![p].date = today]
    /\ UNCHANGED <<db, today, dbUp>>

\* Mutant of RbUpdateBorrow: the record of a returned loan is removed.
RbUpdateBorrowPurged(p) ==
    /\ proc[p].pc = "rb_update_borrow"
    /\ LET i == proc[p].borrow_id
       IN  borrows' = IF dbUp /\ i \in DOMAIN borrows
                      THEN [j \in DOMAIN borrows \ {i} |-> borrows[j]]
                      ELSE borrows
    /\ Goto(p, "rb_update_book")
    /\ UNCHANGED <<books, readers, nextId, today, dbUp>>

\* UPDATE borrows SET status = 'returned', return_date = %s WHERE id = %s
\* (its own transaction; the result is not looked at)
RbUpdateBorrow(p) ==
    /\ proc[p].pc = "rb_update_borrow"
    /\ LET i == proc[p].borrow_id
       IN  borrows' = IF dbUp /\ i \in DOMAIN borrows
                      THEN [borrows EXCEPT ![i].status = "returned",
                                           ![i].return_date = Val(proc[p].date)]
                      ELSE borrows
    /\ Goto(p, "rb_update_book")
    /\ UNCHANGED <<books, readers, nextId, today, dbUp>>

\* Mutant of RbUpdateBook: the book is left as it is.
RbUpdateBookSkipped(p) ==
    /\ proc[p].pc = "rb_update_book"
    /\ Goto(p, "rb_log")
    /\ UNCHANGED <<db, today, dbUp>>

\* UPDATE books SET status = 'available' WHERE id = %s
\* (its own transaction; the result is not looked at)
RbUpdateBook(p) ==
    /\ proc[p].pc = "rb_update_book"
    /\ LET b == proc[p].book_id
       IN  books' = IF dbUp /\ b \in DOMAIN books
                    THEN [books EXCEPT ![b].status = "available"]
                    ELSE books
    /\ Goto(p, "rb_log")
    /\ UNCHANGED <<readers, borrows, nextId, today, dbUp>>

\* log_operation, then 200.
RbLog(p) ==
    /\ proc[p].pc = "rb_log"
    /\ LogAndRespond(p, "return_book", proc[p].borrow_id, 0)
    /\ UNCHANGED <<db, today, dbUp>>

ReturnBook(p) ==
    \/ ReturnBookRequest(p)
    \/ RbRead(p)
    \/ RbUpdateBorrow(p)
    \/ RbUpdateBook(p)
    \/ RbLog(p)

\* ------------------------------------------------------------- renew_book

\* isinstance(v, int)
IsInstanceInt(v) == v.kind \in {"int", "bool"}

\* POST /api/borrows/<id>/renew: days is 30 when omitted, and is rejected
\* when `not isinstance(days, int) or days < 1 or days > 90` (checked
\* before any storage call).
RenewBookRequest(p, extend_values) ==
    /\ proc[p].pc = "idle"
    /\ \E i \in BorrowArgs, d \in extend_values, g \in BOOLEAN :
         LET extend_days == IF g THEN d ELSE [kind |-> "int", n |-> DefaultExtendDays]
             valid == /\ IsInstanceInt(extend_days)
                      /\ extend_days.n >= MinExtendDays
                      /\ extend_days.n <= MaxExtendDays
         IN  proc' = [proc EXCEPT ![p] =
                        [IdleProc EXCEPT !.op = "renew_book", !.borrow_id = i,
                                         !.given = g, !.kind = extend_days.kind,
                                         !.days = extend_days.n,
                                         !.pc = IF valid THEN "rn_read" ELSE "done",
                                         !.result = IF valid THEN "" ELSE "ValidationError"]]
    /\ UNCHANGED <<db, today, dbUp>>

\* Mutant of RnRead: the lookup does not ask for status = 'borrowed'.
RnReadAnyStatus(p) ==
    /\ proc[p].pc = "rn_read"
    /\ LET i == proc[p].borrow_id
           found == dbUp /\ i \in DOMAIN borrows
       IN  IF ~found THEN Respond(p, "NotFound")
           ELSE IF borrows[i].renew_count >= MaxRenewCount
                THEN Respond(p, "RenewalLimitExceeded")
           ELSE proc' = [proc EXCEPT ![p].pc = "rn_update",
                                     ![p].book_id = borrows[i].book_id,
                                     ![p].due_date = borrows[i].due_date + proc[p].days]
    /\ UNCHANGED <<db, today, dbUp>>

\* Mutant of RnRead: one renewal more is let through.
RnReadOneMore(p) ==
    /\ proc[p].pc = "rn_read"
    /\ LET i == proc[p].borrow_id
           found == dbUp /\ i \in DOMAIN borrows /\ borrows[i].status = "borrowed"
       IN  IF ~found THEN Respond(p, "NotFound")
           ELSE IF borrows[i].renew_count > MaxRenewCount
                THEN Respond(p, "RenewalLimitExceeded")
           ELSE proc' = [proc EXCEPT ![p].pc = "rn_update",
                                     ![p].book_id = borrows[i].book_id,
                                     ![p].due_date = borrows[i].due_date + proc[p].days]
    /\ UNCHANGED <<db, today, dbUp>>

\* SELECT * FROM borrows WHERE id = %s AND status = 'borrowed'; at most two
\* renewals; the new due date counts from the due date read.
RnRead(p) ==
    /\ proc[p].pc = "rn_read"
    /\ LET i == proc[p].borrow_id
           found == dbUp /\ i \in DOMAIN borrows /\ borrows[i].status = "borrowed"
       IN  IF ~found THEN Respond(p, "NotFound")
           ELSE IF borrows[i].renew_count >= MaxRenewCount
                THEN Respond(p, "RenewalLimitExceeded")
           ELSE proc' = [proc EXCEPT ![p].pc = "rn_update",
                                     ![p].book_id = borrows[i].book_id,
                                     ![p].due_date = borrows[i].due_date + proc[p].days]
    /\ UNCHANGED <<db, today, dbUp>>

\* UPDATE borrows SET due_date = %s, renew_count = COALESCE(renew_count, 0) + 1
\* WHERE id = %s (its own transaction; the result is not looked at)
RnUpdate(p) ==
    /\ proc[p].pc = "rn_update"
    /\ LET i == proc[p].borrow_id
       IN  borrows' = IF dbUp /\ i \in DOMAIN borrows
                      THEN [borrows EXCEPT ![i].due_date = proc[p].due_date,
                                           ![i].renew_count = borrows[i].renew_count + 1]
                      ELSE borrows
    /\ Goto(p, "rn_log")
    /\ UNCHANGED <<books, readers, nextId, today, dbUp>>

\* log_operation, then 200 with the new due date.
RnLog(p) ==
    /\ proc[p].pc = "rn_log"
    /\ LogAndRespond(p, "renew_book", proc[p].borrow_id, proc[p].due_date)
    /\ UNCHANGED <<db, today, dbUp>>

RenewBook(p, extend_values) ==
    \/ RenewBookRequest(p, extend_values)
    \/ RnRead(p)
    \/ RnUpdate(p)
    \/ RnLog(p)

\* ------------------------------------------------------------- apply_fine

\* Mutant of ApplyFineRequest: only a zero amount is turned away.
ApplyFineRequestNonZero(p) ==
    /\ proc[p].pc = "idle"
    /\ \E i \in BorrowArgs, a \in FineArgs, g \in BOOLEAN :
         LET valid == g /\ a # 0
         IN  proc' = [proc EXCEPT ![p] =
                        [IdleProc EXCEPT !.op = "apply_fine", !.borrow_id = i,
                                         !.given = g, !.amount = IF g THEN a ELSE 0,
                                         !.pc = IF valid THEN "af_read" ELSE "done",
                                         !.result = IF valid THEN "" ELSE "ValidationError"]]
    /\ UNCHANGED <<db, today, dbUp>>

\* POST /api/borrows/<id>/fine: fine_amount must be present and > 0.
ApplyFineRequest(p) ==
    /\ proc[p].pc = "idle"
    /\ \E i \in BorrowArgs, a \in FineArgs, g \in BOOLEAN :
         LET valid == g /\ a > 0
         IN  proc' = [proc EXCEPT ![p] =
                        [IdleProc EXCEPT !.op = "apply_fine", !.borrow_id = i,
                                         !.given = g, !.amount = IF g THEN a ELSE 0,
                                         !.pc = IF valid THEN "af_read" ELSE "done",
                                         !.result = IF valid THEN "" ELSE "ValidationError"]]
    /\ UNCHANGED <<db, today, dbUp>>

\* SELECT * FROM borrows WHERE id = %s
AfRead(p) ==
    /\ proc[p].pc = "af_read"
    /\ IF dbUp /\ proc[p].borrow_id \in DOMAIN borrows
       THEN Goto(p, "af_update")
       ELSE Respond(p, "NotFound")
    /\ UNCHANGED <<db, today, dbUp>>

\* Mutant of AfUpdate: the fined record's book is released as well.
AfUpdateReleasesBook(p) ==
    /\ proc[p].pc = "af_update"
    /\ LET i == proc[p].borrow_id
       IN  IF dbUp
           THEN /\ borrows' = [borrows EXCEPT ![i].fine_amount = Val(proc[p].amount),
                                              ![i].status = "fined"]
                /\ books' = [books EXCEPT ![borrows[i].book_id].status = "available"]
                /\ Goto(p, "af_log")
           ELSE /\ Respond(p, "StorageError")
                /\ UNCHANGED <<books, borrows>>
    /\ UNCHANGED <<readers, nextId, today, dbUp>>

\* UPDATE borrows SET fine_amount = %s, status = 'fined' WHERE id = %s
AfUpdate(p) ==
    /\ proc[p].pc = "af_update"
    /\ LET i == proc[p].borrow_id
       IN  IF dbUp
           THEN /\ borrows' = IF i \in DOMAIN borrows
                              THEN [borrows EXCEPT ![i].fine_amount = Val(proc[p].amount),
                                                   ![i].status = "fined"]
                              ELSE borrows
                /\ Goto(p, "af_log")
           ELSE /\ Respond(p, "StorageError")
                /\ UNCHANGED borrows
    /\ UNCHANGED <<books, readers, nextId, today, dbUp>>

\* log_operation, then 200.
AfLog(p) ==
    /\ proc[p].pc = "af_log"
    /\ LogAndRespond(p, "apply_fine", proc[p].borrow_id, proc[p].amount)
    /\ UNCHANGED <<db, today, dbUp>>

ApplyFine(p) ==
    \/ ApplyFineRequest(p)
    \/ AfRead(p)
    \/ AfUpdate(p)
    \/ AfLog(p)

\* --------------------------------------------------- update_borrow_status

\* Mutant of valid_statuses: 'fined' is let through.
valid_statuses_and_fined ==
    {"borrowed", "returned", "reserved", "damaged", "lost", "fined"}

valid_statuses == {"borrowed", "returned", "reserved", "damaged", "lost"}

\* The book status that mirrors a borrow status, for the statuses that have
\* one.
MirroredStatuses == {"lost", "damaged", "returned"}
\* Mutant of BookStatusFor: a damaged copy is written off as lost.
BookStatusForWrittenOff(status) ==
    IF status = "returned" THEN "available" ELSE "lost"

BookStatusFor(status) ==
    CASE status = "lost" -> "lost"
      [] status = "damaged" -> "damaged"
      [] status = "returned" -> "available"

\* PUT /api/borrows/<id>/status: status must be present and one of
\* valid_statuses.
UpdateBorrowStatusRequest(p) ==
    /\ proc[p].pc = "idle"
    /\ \E i \in BorrowArgs, s \in StatusArgs, g \in BOOLEAN :
         LET valid == g /\ s \in valid_statuses
         IN  proc' = [proc EXCEPT ![p] =
                        [IdleProc EXCEPT !.op = "update_borrow_status", !.borrow_id = i,
                                         !.given = g, !.status = IF g THEN s ELSE "",
                                         !.pc = IF valid THEN "ub_read" ELSE "done",
                                         !.result = IF valid THEN "" ELSE "ValidationError"]]
    /\ UNCHANGED <<db, today, dbUp>>

\* SELECT id, book_id FROM borrows WHERE id = %s
UbRead(p) ==
    /\ proc[p].pc = "ub_read"
    /\ LET i == proc[p].borrow_id
       IN  IF dbUp /\ i \in DOMAIN borrows
           THEN proc' = [proc EXCEPT ![p].pc = "ub_connect",
                                     ![p].book_id = borrows[i].book_id]
           ELSE Respond(p, "NotFound")
    /\ UNCHANGED <<db, today, dbUp>>

\* get_db_connection() for the transaction.
UbConnect(p) ==
    /\ proc[p].pc = "ub_connect"
    /\ IF dbUp THEN Goto(p, "ub_update_borrow") ELSE Respond(p, "StorageError")
    /\ UNCHANGED <<db, today, dbUp>>

\* Mutant of UbUpdateBorrow: the connection commits the statement at once.
UbUpdateBorrowAutocommit(p) ==
    /\ proc[p].pc = "ub_update_borrow"
    /\ IF dbUp
       THEN /\ proc' = [proc EXCEPT ![p].date = today,
                                    ![p].pc = IF proc[p].status \in MirroredStatuses
                                              THEN "ub_update_book" ELSE "ub_commit"]
            /\ borrows' = [borrows EXCEPT ![proc[p].borrow_id].status = proc[p].status]
       ELSE /\ Respond(p, "StorageError")
            /\ UNCHANGED borrows
    /\ UNCHANGED <<books, readers, nextId, today, dbUp>>

\* UPDATE borrows SET status = %s [, return_date = CURDATE()] WHERE id = %s,
\* inside the transaction.
UbUpdateBorrow(p) ==
    /\ proc[p].pc = "ub_update_borrow"
    /\ IF dbUp
       THEN proc' = [proc EXCEPT ![p].date = today,
                                 ![p].pc = IF proc[p].status \in MirroredStatuses
                                           THEN "ub_update_book" ELSE "ub_commit"]
       ELSE Respond(p, "StorageError")
    /\ UNCHANGED <<db, today, dbUp>>

\* UPDATE books SET status = ... WHERE id = %s, inside the transaction.
UbUpdateBook(p) ==
    /\ proc[p].pc = "ub_update_book"
    /\ IF dbUp THEN Goto(p, "ub_commit") ELSE Respond(p, "StorageError")
    /\ UNCHANGED <<db, today, dbUp>>

\* Mutant of UbCommit: the return date is left as it is.
UbCommitStatusOnly(p) ==
    /\ proc[p].pc = "ub_commit"
    /\ LET i == proc[p].borrow_id
           b == proc[p].book_id
           s == proc[p].status
       IN  IF dbUp
           THEN /\ borrows' = IF i \in DOMAIN borrows
                              THEN [borrows EXCEPT ![i].status = s]
                              ELSE borrows
                /\ books' = IF s \in MirroredStatuses /\ b \in DOMAIN books
                            THEN [books EXCEPT ![b].status = BookStatusFor(s)]
                            ELSE books
                /\ Goto(p, "ub_log")
           ELSE /\ Respond(p, "StorageError")
                /\ UNCHANGED <<books, borrows>>
    /\ UNCHANGED <<readers, nextId, today, dbUp>>

\* connection.commit(): the writes of the transaction become visible
\* together; a failure rolls them back.
UbCommit(p) ==
    /\ proc[p].pc = "ub_commit"
    /\ LET i == proc[p].borrow_id
           b == proc[p].book_id
           s == proc[p].status
       IN  IF dbUp
           THEN /\ borrows' = IF i \in DOMAIN borrows
                              THEN [borrows EXCEPT
                                      ![i].status = s,
                                      ![i].return_date = IF s = "returned"
                                                         THEN Val(proc[p].date)
                                                         ELSE borrows[i].return_date]
                              ELSE borrows
                /\ books' = IF s \in MirroredStatuses /\ b \in DOMAIN books
                            THEN [books EXCEPT ![b].status = BookStatusFor(s)]
                            ELSE books
                /\ Goto(p, "ub_log")
           ELSE /\ Respond(p, "StorageError")
                /\ UNCHANGED <<books, borrows>>
    /\ UNCHANGED <<readers, nextId, today, dbUp>>

\* log_operation, then 200.
UbLog(p) ==
    /\ proc[p].pc = "ub_log"
    /\ LogAndRespond(p, "update_borrow_status", proc[p].borrow_id, 0)
    /\ UNCHANGED <<db, today, dbUp>>

UpdateBorrowStatus(p) ==
    \/ UpdateBorrowStatusRequest(p)
    \/ UbRead(p)
    \/ UbConnect(p)
    \/ UbUpdateBorrow(p)
    \/ UbUpdateBook(p)
    \/ UbCommit(p)
    \/ UbLog(p)

\* ---------------------------------------------------------- update_reader

\* PUT /api/readers/<id>: of the fields it may carry, max_borrow_count is
\* the one the lifecycle reads; `given` says whether the request carries it
\* (a request with no field to update is rejected after the lookup).
UpdateReaderRequest(p, max_count_args) ==
    /\ proc[p].pc = "idle"
    /\ \E r \in ReaderArgs, m \in max_count_args, g \in BOOLEAN :
         proc' = [proc EXCEPT ![p] =
                    [IdleProc EXCEPT !.op = "update_reader", !.reader_id = r,
                                     !.given = g, !.new_max = IF g THEN m ELSE 0,
                                     !.pc = "ur_read"]]
    /\ UNCHANGED <<db, today, dbUp>>

\* SELECT id FROM readers WHERE id = %s
UrRead(p) ==
    /\ proc[p].pc = "ur_read"
    /\ IF ~(dbUp /\ proc[p].reader_id \in DOMAIN readers) THEN Respond(p, "NotFound")
       ELSE IF ~proc[p].given THEN Respond(p, "ValidationError")
       ELSE Goto(p, "ur_update")
    /\ UNCHANGED <<db, today, dbUp>>

\* UPDATE readers SET max_borrow_count = %s WHERE id = %s
UrUpdate(p) ==
    /\ proc[p].pc = "ur_update"
    /\ LET r == proc[p].reader_id
       IN  IF dbUp
           THEN /\ readers' = IF r \in DOMAIN readers
                              THEN [readers EXCEPT ![r].max_borrow_count = proc[p].new_max]
                              ELSE readers
                /\ Goto(p, "ur_log")
           ELSE /\ Respond(p, "StorageError")
                /\ UNCHANGED readers
    /\ UNCHANGED <<books, borrows, nextId, today, dbUp>>

\* log_operation, then 200.
UrLog(p) ==
    /\ proc[p].pc = "ur_log"
    /\ LogAndRespond(p, "update_reader", proc[p].reader_id, 0)
    /\ UNCHANGED <<db, today, dbUp>>

UpdateReader(p, max_count_args) ==
    \/ UpdateReaderRequest(p, max_count_args)
    \/ UrRead(p)
    \/ UrUpdate(p)
    \/ UrLog(p)

\* ---------------------------------------------------- add_book, update_book

\* Titles a request may carry, and the status values it may carry beside
\* them.
TitleArgs == {"t1", "t2"}
BookStatusArgs == {"available", "lost"}

\* The JSON bodies of the book requests: any of the fields title and
\* status, each with a value.
BookData ==
    {<< >>}
      \cup {[title |-> t] : t \in TitleArgs}
      \cup {[status |-> st] : st \in BookStatusArgs}
      \cup {[title |-> t, status |-> st] : t \in TitleArgs, st \in BookStatusArgs}

\* The fields of the body that update_book writes (of those modelled).
UpdatableBookFields == {"title"}

\* POST /api/books: a body without a required field (title stands for
\* them) is a 400.
AddBookRequest(p) ==
    /\ proc[p].pc = "idle"
    /\ \E d \in BookData :
         LET valid == "title" \in DOMAIN d
         IN  proc' = [proc EXCEPT ![p] =
                        [IdleProc EXCEPT !.op = "add_book", !.data = d,
                                         !.pc = IF valid THEN "ab_insert" ELSE "done",
                                         !.result = IF valid THEN "" ELSE "ValidationError"]]
    /\ UNCHANGED <<db, today, dbUp>>

\* INSERT INTO books (..., status) VALUES (..., 'available'), committed at
\* once; no answer is a 500.  The new id is the next one of a catalogue
\* from which no book has been deleted.
AbInsert(p) ==
    /\ proc[p].pc = "ab_insert"
    /\ Cardinality(DOMAIN books) < MaxBooks
    /\ IF dbUp
       THEN LET b == Cardinality(DOMAIN books) + 1
            IN  /\ books' = (b :> [status |-> "available",
                                   title |-> proc[p].data.title])
                             @@ books
                /\ Goto(p, "ab_log")
       ELSE /\ Respond(p, "StorageError")
            /\ UNCHANGED books
    /\ UNCHANGED <<readers, borrows, nextId, today, dbUp>>

\* log_operation, then 201.
AbLog(p) ==
    /\ proc[p].pc = "ab_log"
    /\ LogAndRespond(p, "add_book", 0, 0)
    /\ UNCHANGED <<db, today, dbUp>>

AddBook(p) ==
    \/ AddBookRequest(p)
    \/ AbInsert(p)
    \/ AbLog(p)

\* PUT /api/books/<book_id>
UpdateBookRequest(p) ==
    /\ proc[p].pc = "idle"
    /\ \E b \in BookArgs, d \in BookData :
         proc' = [proc EXCEPT ![p] = [IdleProc EXCEPT !.op = "update_book",
                                                     !.book_id = b, !.data = d,
                                                     !.pc = "bk_read"]]
    /\ UNCHANGED <<db, today, dbUp>>

\* SELECT id FROM books WHERE id = %s; no row, or no answer, is a 404.
\* Then a body with none of the fields update_book writes is a 400.
BkRead(p) ==
    /\ proc[p].pc = "bk_read"
    /\ IF ~(dbUp /\ proc[p].book_id \in DOMAIN books) THEN Respond(p, "NotFound")
       ELSE IF DOMAIN proc[p].data \cap UpdatableBookFields = {}
            THEN Respond(p, "ValidationError")
       ELSE Goto(p, "bk_update")
    /\ UNCHANGED <<db, today, dbUp>>

\* Mutant of BkUpdate: every field of the body is written.
BkUpdateEveryField(p) ==
    /\ proc[p].pc = "bk_update"
    /\ LET b == proc[p].book_id
           d == proc[p].data
       IN  IF dbUp
           THEN /\ books' = IF b \in DOMAIN books
                            THEN [books EXCEPT ![b] =
                                    [f \in DOMAIN books[b] |->
                                       IF f \in DOMAIN d THEN d[f] ELSE books[b][f]]]
                            ELSE books
                /\ Goto(p, "bk_log")
           ELSE /\ Respond(p, "StorageError")
                /\ UNCHANGED books
    /\ UNCHANGED <<readers, borrows, nextId, today, dbUp>>

\* UPDATE books SET <the fields of the body that are in the list> WHERE
\* id = %s, committed at once; no answer is a 500.
BkUpdate(p) ==
    /\ proc[p].pc = "bk_update"
    /\ LET b == proc[p].book_id
           d == proc[p].data
       IN  IF dbUp
           THEN /\ books' = IF b \in DOMAIN books
                            THEN [books EXCEPT ![b] =
                                    [f \in DOMAIN books[b] |->
                                       IF f \in DOMAIN d \cap UpdatableBookFields
                                       THEN d[f] ELSE books[b][f]]]
                            ELSE books
                /\ Goto(p, "bk_log")
           ELSE /\ Respond(p, "StorageError")
                /\ UNCHANGED books
    /\ UNCHANGED <<readers, borrows, nextId, today, dbUp>>

\* log_operation, then 200.
BkLog(p) ==
    /\ proc[p].pc = "bk_log"
    /\ LogAndRespond(p, "update_book", proc[p].book_id, 0)
    /\ UNCHANGED <<db, today, dbUp>>

UpdateBook(p) ==
    \/ UpdateBookRequest(p)
    \/ BkRead(p)
    \/ BkUpdate(p)
    \/ BkLog(p)

\* ------------------------------------------------ delete_book, delete_reader

\* The rows of readers and books that an open create_borrow transaction
\* has referred to in its INSERT: they stay locked until it ends, and a
\* DELETE of one of them waits.
LockedReaders == {proc[q].reader_id : q \in {q \in Procs : proc[q].pc \in {"cb_update", "cb_commit"}}}
LockedBooks == {proc[q].book_id : q \in {q \in Procs : proc[q].pc \in {"cb_update", "cb_commit"}}}

\* The ledger after the deletion of a book or a reader: the records that
\* refer to the deleted row go with it.
WithoutRecordsOf(field, id) ==
    [i \in {j \in DOMAIN borrows : borrows[j][field] # id} |-> borrows[i]]

\* DELETE /api/books/<book_id>
DeleteBookRequest(p) ==
    /\ proc[p].pc = "idle"
    /\ \E b \in BookArgs :
         proc' = [proc EXCEPT ![p] = [IdleProc EXCEPT !.op = "delete_book",
                                                     !.book_id = b,
                                                     !.pc = "db_read"]]
    /\ UNCHANGED <<db, today, dbUp>>

\* SELECT id FROM books WHERE id = %s; no row, or no answer, is a 404.
DbRead(p) ==
    /\ proc[p].pc = "db_read"
    /\ IF dbUp /\ proc[p].book_id \in DOMAIN books
       THEN Goto(p, "db_check")
       ELSE Respond(p, "NotFound")
    /\ UNCHANGED <<db, today, dbUp>>

\* SELECT id FROM borrows WHERE book_id = %s AND status = 'borrowed'; a row
\* is a 400, no row or no answer lets the deletion go on.
DbCheck(p) ==
    /\ proc[p].pc = "db_check"
    /\ IF dbUp /\ \E i \in DOMAIN borrows :
                    /\ borrows[i].book_id = proc[p].book_id
                    /\ borrows[i].status = "borrowed"
       THEN Respond(p, "HasActiveBorrows")
       ELSE Goto(p, "db_delete")
    /\ UNCHANGED <<db, today, dbUp>>

\* DELETE FROM books WHERE id = %s, committed at once; no answer is a 500.
DbDelete(p) ==
    /\ proc[p].pc = "db_delete"
    /\ proc[p].book_id \notin LockedBooks
    /\ LET b == proc[p].book_id
       IN  IF dbUp
           THEN /\ books' = [c \in DOMAIN books \ {b} |-> books[c]]
                /\ borrows' = WithoutRecordsOf("book_id", b)
                /\ Goto(p, "db_log")
           ELSE /\ Respond(p, "StorageError")
                /\ UNCHANGED <<books, borrows>>
    /\ UNCHANGED <<readers, nextId, today, dbUp>>

\* log_operation, then 200.
DbLog(p) ==
    /\ proc[p].pc = "db_log"
    /\ LogAndRespond(p, "delete_book", proc[p].book_id, 0)
    /\ UNCHANGED <<db, today, dbUp>>

DeleteBook(p) ==
    \/ DeleteBookRequest(p)
    \/ DbRead(p)
    \/ DbCheck(p)
    \/ DbDelete(p)
    \/ DbLog(p)

\* DELETE /api/readers/<reader_id>
DeleteReaderRequest(p) ==
    /\ proc[p].pc = "idle"
    /\ \E r \in ReaderArgs :
         proc' = [proc EXCEPT ![p] = [IdleProc EXCEPT !.op = "delete_reader",
                                                     !.reader_id = r,
                                                     !.pc = "dr_read"]]
    /\ UNCHANGED <<db, today, dbUp>>

\* SELECT id FROM readers WHERE id = %s; no row, or no answer, is a 404.
DrRead(p) ==
    /\ proc[p].pc = "dr_read"
    /\ IF dbUp /\ proc[p].reader_id \in DOMAIN readers
       THEN Goto(p, "dr_check")
       ELSE Respond(p, "NotFound")
    /\ UNCHANGED <<db, today, dbUp>>

\* SELECT id FROM borrows WHERE reader_id = %s AND status = 'borrowed'; a
\* row is a 400, no row or no answer lets the deletion go on.
DrCheck(p) ==
    /\ proc[p].pc = "dr_check"
    /\ IF dbUp /\ \E i \in DOMAIN borrows :
                    /\ borrows[i].reader_id = proc[p].reader_id
                    /\ borrows[i].status = "borrowed"
       THEN Respond(p, "HasActiveBorrows")
       ELSE Goto(p, "dr_delete")
    /\ UNCHANGED <<db, today, dbUp>>

\* DELETE FROM readers WHERE id = %s, committed at once; no answer is a
\* 500.
DrDelete(p) ==
    /\ proc[p].pc = "dr_delete"
    /\ proc[p].reader_id \notin LockedReaders
    /\ LET r == proc[p].reader_id
       IN  IF dbUp
           THEN /\ readers' = [c \in DOMAIN readers \ {r} |-> readers[c]]
                /\ borrows' = WithoutRecordsOf("reader_id", r)
                /\ Goto(p, "dr_log")
           ELSE /\ Respond(p, "StorageError")
                /\ UNCHANGED <<readers, borrows>>
    /\ UNCHANGED <<books, nextId, today, dbUp>>

\* log_operation, then 200.
DrLog(p) ==
    /\ proc[p].pc = "dr_log"
    /\ LogAndRespond(p, "delete_reader", proc[p].reader_id, 0)
    /\ UNCHANGED <<db, today, dbUp>>

DeleteReader(p) ==
    \/ DeleteReaderRequest(p)
    \/ DrRead(p)
    \/ DrCheck(p)
    \/ DrDelete(p)
    \/ DrLog(p)

\* ------------------------------------------------------------ get_borrows

\* GET /api/borrows
GetBorrowsRequest(p) ==
    /\ proc[p].pc = "idle"
    /\ proc' = [proc EXCEPT ![p] = [IdleProc EXCEPT !.op = "get_borrows",
                                                    !.pc = "gb_query"]]
    /\ UNCHANGED <<db, today, dbUp>>

\* SELECT ... FROM borrows b JOIN readers r ... JOIN books bk ...: the
\* records whose reader and book exist, with their stored status and due
\* date.
GbQuery(p) ==
    /\ proc[p].pc = "gb_query"
    /\ IF dbUp
       THEN LET listed == {i \in DOMAIN borrows :
                             /\ borrows[i].reader_id \in DOMAIN readers
                             /\ borrows[i].book_id \in DOMAIN books}
            IN  proc' = [proc EXCEPT
                           ![p].pc = "gb_present",
                           ![p].view = [i \in listed |->
                                          [status |-> borrows[i].status,
                                           due_date |-> borrows[i].due_date]]]
       ELSE Respond(p, "StorageError")
    /\ UNCHANGED <<db, today, dbUp>>

\* Mutant of GbPresent: a record due today is shown as overdue.
GbPresentDueToday(p) ==
    /\ proc[p].pc = "gb_present"
    /\ proc' = [proc EXCEPT
                  ![p].pc = "done", ![p].result = "ok",
                  ![p].view = [i \in DOMAIN proc[p].view |->
                                 IF /\ proc[p].view[i].status = "borrowed"
                                    /\ proc[p].view[i].due_date <= today
                                 THEN [proc[p].view[i] EXCEPT !.status = "overdue"]
                                 ELSE proc[p].view[i]]]
    /\ UNCHANGED <<db, today, dbUp>>

\* today = datetime.now().date(); a listed record that is 'borrowed' and
\* whose due_date < today is shown as 'overdue'.
GbPresent(p) ==
    /\ proc[p].pc = "gb_present"
    /\ proc' = [proc EXCEPT
                  ![p].pc = "done", ![p].result = "ok",
                  ![p].view = [i \in DOMAIN proc[p].view |->
                                 IF /\ proc[p].view[i].status = "borrowed"
                                    /\ proc[p].view[i].due_date < today
                                 THEN [proc[p].view[i] EXCEPT !.status = "overdue"]
                                 ELSE proc[p].view[i]]]
    /\ UNCHANGED <<db, today, dbUp>>

GetBorrows(p) ==
    \/ GetBorrowsRequest(p)
    \/ GbQuery(p)
    \/ GbPresent(p)

\* --------------------------------------------- DatabaseManager.transaction

\* A caller's `with db_manager.transaction():` block whose statements are
\* execute_update calls on rows of readers.  The manager keeps one
\* connection: proc[p].given tells whether that connection has an open
\* transaction, and proc[p].data holds the writes of that transaction, row
\* by row, which other connections do not see.

\* What the tables show once the writes in pending are committed.
WithWrites(pending) ==
    [r \in DOMAIN readers |->
        IF r \in DOMAIN pending
        THEN [readers[r] EXCEPT !.max_borrow_count = pending[r]]
        ELSE readers[r]]

\* Mutant of TransactionBegin: the block is entered without
\* connection.begin(), on the autocommit connection of DATABASE_CONFIG.
TransactionBeginSkipped(p) ==
    /\ proc[p].pc = "idle"
    /\ IF dbUp
       THEN proc' = [proc EXCEPT ![p] = [IdleProc EXCEPT !.op = "transaction",
                                                        !.given = FALSE,
                                                        !.pc = "tx_block"]]
       ELSE proc' = [proc EXCEPT ![p] = [IdleProc EXCEPT !.op = "transaction",
                                                        !.given = FALSE,
                                                        !.pc = "done",
                                                        !.result = "Raised"]]
    /\ UNCHANGED <<db, today, dbUp>>

\* connection = self.get_connection(); connection.begin().  Without a
\* connection get_connection raises before the block is entered.
TransactionBegin(p) ==
    /\ proc[p].pc = "idle"
    /\ IF dbUp
       THEN proc' = [proc EXCEPT ![p] = [IdleProc EXCEPT !.op = "transaction",
                                                        !.given = TRUE,
                                                        !.pc = "tx_block"]]
       ELSE proc' = [proc EXCEPT ![p] = [IdleProc EXCEPT !.op = "transaction",
                                                        !.given = FALSE,
                                                        !.pc = "done",
                                                        !.result = "Raised"]]
    /\ UNCHANGED <<db, today, dbUp>>

\* execute_update inside the block, on the manager's connection.  A
\* statement that runs is held back while the transaction is open and is
\* committed at once otherwise.  A statement that raises (a statement the
\* storage refuses, or no answer) makes get_cursor roll the connection
\* back and raise; the exception leaves the block.
ExecuteUpdate(p) ==
    /\ proc[p].pc = "tx_block"
    /\ \E r \in ReaderIds, m \in MaxCountArgs, refused \in BOOLEAN :
         IF refused \/ ~dbUp
         THEN /\ proc' = [proc EXCEPT ![p].pc = "tx_raised",
                                      ![p].given = FALSE, ![p].data = << >>]
              /\ UNCHANGED readers
         ELSE IF proc[p].given
         THEN /\ proc' = [proc EXCEPT ![p].reader_id = r, ![p].new_max = m,
                                      ![p].data = (r :> m) @@ proc[p].data]
              /\ UNCHANGED readers
         ELSE /\ proc' = [proc EXCEPT ![p].reader_id = r, ![p].new_max = m]
              /\ readers' = [readers EXCEPT ![r].max_borrow_count = m]
    /\ UNCHANGED <<books, borrows, nextId, today, dbUp>>

\* except Exception of transaction(): connection.rollback(), then raise to
\* the caller.
TransactionRollback(p) ==
    /\ proc[p].pc = "tx_raised"
    /\ proc' = [proc EXCEPT ![p].pc = "done", ![p].result = "Raised",
                            ![p].given = FALSE, ![p].data = << >>]
    /\ UNCHANGED <<db, today, dbUp>>

\* The block ends without an exception: connection.commit(); a commit the
\* storage does not answer raises, and the writes are dropped.
TransactionCommit(p) ==
    /\ proc[p].pc = "tx_block"
    /\ IF dbUp
       THEN /\ readers' = WithWrites(proc[p].data)
            /\ proc' = [proc EXCEPT ![p].pc = "done", ![p].result = "ok",
                                    ![p].given = FALSE, ![p].data = << >>]
       ELSE /\ proc' = [proc EXCEPT ![p].pc = "tx_raised",
                                    ![p].given = FALSE, ![p].data = << >>]
            /\ UNCHANGED readers
    /\ UNCHANGED <<books, borrows, nextId, today, dbUp>>

Transaction(p) ==
    \/ TransactionBegin(p)
    \/ ExecuteUpdate(p)
    \/ TransactionRollback(p)
    \/ TransactionCommit(p)

\* --------------------------------------------------------- specifications

\* One handler serves one request after the other: every lifecycle
\* operation but renewal, on a fixed date, the storage always answering.
Step(p) ==
    \/ CreateBorrow(p, OneDay)
    \/ ReturnBook(p)
    \/ ApplyFine(p)
    \/ UpdateBorrowStatus(p)
    \/ UpdateReader(p, MaxCountArgs)
    \/ Finish(p)

Next == \E p \in SeqProcs : Step(p)

Spec == Init /\ [][Next]_vars

\* Borrowing and returning while the date changes, for every loan period.
NextBorrow ==
    \/ \E p \in SeqProcs : CreateBorrow(p, DayArgs) \/ ReturnBook(p) \/ Finish(p)
    \/ Tick

SpecBorrow == Init /\ [][NextBorrow]_vars

\* Borrowing and returning while the storage may stop answering at any
\* call.
NextFault ==
    \/ \E p \in SeqProcs : CreateBorrow(p, OneDay) \/ ReturnBook(p) \/ Finish(p)
    \/ DbDown
    \/ DbRestored

SpecFault == Init /\ [][NextFault]_vars

\* Borrowing, renewing and returning.
NextRenew ==
    \E p \in SeqProcs :
        \/ CreateBorrow(p, OneDay)
        \/ RenewBook(p, ExtendValues)
        \/ ReturnBook(p)
        \/ Finish(p)

SpecRenew == Init /\ [][NextRenew]_vars

\* Two requests in flight at once, one per handler: both handlers borrow
\* from the empty ledger, or they borrow and return over one open loan.
InitRace ==
    /\ readers = [r \in ReaderIds |-> [status |-> "active", max_borrow_count |-> 1]]
    /\ \/ /\ books = [b \in BookIds |-> [status |-> "available"]]
          /\ borrows = << >>
          /\ nextId = 1
       \/ /\ books = [b \in BookIds |->
                        [status |-> IF b = 1 THEN "borrowed" ELSE "available"]]
          /\ borrows = (1 :> NewBorrowRow(1, 1, 1, 2))
          /\ nextId = 2
    /\ today = 1
    /\ dbUp = TRUE
    /\ proc = [p \in Procs |-> IdleProc]

NextRace == \E p \in Procs : CreateBorrow(p, OneDay) \/ ReturnBook(p)

SpecRace == InitRace /\ [][NextRace]_vars

\* Two handlers, one request each: deletions beside a borrowing.
NextDeleteRace ==
    \E p \in Procs : CreateBorrow(p, OneDay) \/ DeleteBook(p) \/ DeleteReader(p)

SpecDeleteRace == InitRace /\ [][NextDeleteRace]_vars

\* One open loan: reader 1 has borrowed book 1 on day 1, for one day.
InitOneLoan ==
    /\ readers = [r \in ReaderIds |-> [status |-> "active", max_borrow_count |-> 1]]
    /\ books = [b \in BookIds |-> [status |-> IF b = 1 THEN "borrowed" ELSE "available"]]
    /\ borrows = (1 :> NewBorrowRow(1, 1, 1, 2))
    /\ nextId = 2
    /\ today = 1
    /\ dbUp = TRUE
    /\ proc = [p \in Procs |-> IdleProc]

\* Two open loans: reader 1 has borrowed book 1 and reader 2 book 2, both
\* on day 1 and for one day.
InitTwoLoans ==
    /\ readers = [r \in ReaderIds |-> [status |-> "active", max_borrow_count |-> 1]]
    /\ books = [b \in BookIds |-> [status |-> "borrowed"]]
    /\ borrows = (1 :> NewBorrowRow(1, 1, 1, 2)) @@ (2 :> NewBorrowRow(2, 2, 1, 2))
    /\ nextId = 3
    /\ today = 1
    /\ dbUp = TRUE
    /\ proc = [p \in Procs |-> IdleProc]

\* Borrowing and marking records, one request after the other.
NextStatus ==
    \E p \in SeqProcs : CreateBorrow(p, OneDay) \/ UpdateBorrowStatus(p) \/ Finish(p)

SpecStatus == Init /\ [][NextStatus]_vars

\* Marking the two open loans while the date changes.
NextMark ==
    \/ \E p \in SeqProcs : UpdateBorrowStatus(p) \/ Finish(p)
    \/ Tick

SpecMark == InitTwoLoans /\ [][NextMark]_vars

\* Marking and fining the two open loans, one request after the other.
NextFine ==
    \E p \in SeqProcs : UpdateBorrowStatus(p) \/ ApplyFine(p) \/ Finish(p)

SpecFine == InitTwoLoans /\ [][NextFine]_vars

\* Two open loans of day 0, the one of reader 1 due on day 1 and the one
\* of reader 2 due on day 2.
InitListing ==
    /\ readers = [r \in ReaderIds |-> [status |-> "active", max_borrow_count |-> 1]]
    /\ books = [b \in BookIds |-> [status |-> "borrowed"]]
    /\ borrows = (1 :> NewBorrowRow(1, 1, 0, 1)) @@ (2 :> NewBorrowRow(2, 2, 0, 2))
    /\ nextId = 3
    /\ today = 1
    /\ dbUp = TRUE
    /\ proc = [p \in Procs |-> IdleProc]

\* Listing the ledger while its records are marked and fined and the date
\* changes.
NextList ==
    \/ \E p \in SeqProcs :
          \/ UpdateBorrowStatus(p)
          \/ ApplyFine(p)
          \/ GetBorrows(p)
          \/ Finish(p)
    \/ Tick

SpecList == InitListing /\ [][NextList]_vars

\* One open loan, of book 1 to reader 1; reader 2 is not active and book 2
\* is lost, so that every later loan is of book 1 to reader 1.
InitLedger ==
    /\ readers = [r \in ReaderIds |->
                    [status |-> IF r = 1 THEN "active" ELSE "inactive",
                     max_borrow_count |-> 1]]
    /\ books = [b \in BookIds |-> [status |-> IF b = 1 THEN "borrowed" ELSE "lost"]]
    /\ borrows = (1 :> NewBorrowRow(1, 1, 1, 2))
    /\ nextId = 2
    /\ today = 1
    /\ dbUp = TRUE
    /\ proc = [p \in Procs |-> IdleProc]

\* The five lifecycle operations, one request at a time, on a ledger that
\* holds one open loan.
NextLedger ==
    \E p \in SeqProcs :
        \/ CreateBorrow(p, OneDay)
        \/ ReturnBook(p)
        \/ RenewBook(p, DefaultExtend)
        \/ UpdateBorrowStatus(p)
        \/ ApplyFine(p)
        \/ Finish(p)

SpecLedger == InitLedger /\ [][NextLedger]_vars

\* A catalogue of two titled books, book 1 on loan to reader 1.
InitCatalogue ==
    /\ readers = [r \in ReaderIds |-> [status |-> "active", max_borrow_count |-> 1]]
    /\ books = [b \in BookIds |->
                  [status |-> IF b = 1 THEN "borrowed" ELSE "available",
                   title |-> "t1"]]
    /\ borrows = (1 :> NewBorrowRow(1, 1, 1, 2))
    /\ nextId = 2
    /\ today = 1
    /\ dbUp = TRUE
    /\ proc = [p \in Procs |-> IdleProc]

\* The catalogue and reader requests beside the listing, a renewal, a fine
\* and a return, one request at a time.
NextCatalogue ==
    \E p \in SeqProcs :
        \/ AddBook(p)
        \/ UpdateBook(p)
        \/ UpdateReader(p, MaxCountArgs)
        \/ GetBorrows(p)
        \/ RenewBook(p, DefaultExtend)
        \/ ApplyFine(p)
        \/ ReturnBook(p)
        \/ Finish(p)

SpecCatalogue == InitCatalogue /\ [][NextCatalogue]_vars

\* Readers' limits rewritten, with any number, beside borrowing.
NextReader ==
    \E p \in SeqProcs :
        \/ UpdateReader(p, AnyCountArgs)
        \/ CreateBorrow(p, OneDay)
        \/ Finish(p)

SpecReader == InitOneLoan /\ [][NextReader]_vars

\* Borrowing, and the two ways a record becomes 'returned', one request at
\* a time.
NextReturn ==
    \E p \in SeqProcs :
        \/ CreateBorrow(p, OneDay)
        \/ ReturnBook(p)
        \/ UpdateBorrowStatus(p)
        \/ Finish(p)

SpecReturn == InitLedger /\ [][NextReturn]_vars

\* Blocks of DatabaseManager.transaction(), one after the other, while
\* the storage may stop answering at any call.
NextTransaction ==
    \/ \E p \in SeqProcs : Transaction(p) \/ Finish(p)
    \/ DbDown
    \/ DbRestored

SpecTransaction == Init /\ [][NextTransaction]_vars

\* Marking the open loan while the storage may stop answering at any call.
NextStatusFault ==
    \/ \E p \in SeqProcs : UpdateBorrowStatus(p) \/ Finish(p)
    \/ DbDown
    \/ DbRestored

SpecStatusFault == InitOneLoan /\ [][NextStatusFault]_vars

\* Returning, renewing, marking and fining the open loan, one request after
\* the other, while the storage may stop answering at any call.
NextLifecycleFault ==
    \/ \E p \in SeqProcs :
          \/ ReturnBook(p)
          \/ RenewBook(p, DefaultExtend)
          \/ UpdateBorrowStatus(p)
          \/ ApplyFine(p)
          \/ Finish(p)
    \/ DbDown
    \/ DbRestored

SpecLifecycleFault == InitOneLoan /\ [][NextLifecycleFault]_vars

\* Renewals in flight at once over the open loan.
NextRenewRace == \E p \in Procs : RenewBook(p, ExtendValues) \/ Finish(p)

SpecRenewRace == InitOneLoan /\ [][NextRenewRace]_vars

\* Renewing a record of every status: the loan is marked, fined and
\* renewed, one request after the other.
NextRenewStatus ==
    \E p \in SeqProcs :
        \/ UpdateBorrowStatus(p)
        \/ ApplyFine(p)
        \/ RenewBook(p, DefaultExtend)
        \/ Finish(p)

SpecRenewStatus == InitOneLoan /\ [][NextRenewStatus]_vars

\* ------------------------------------------------------------------ claims

\* The borrow records of book b whose status is 'borrowed'.
ActiveBorrowsOf(b) ==
    {i \in DOMAIN borrows : borrows[i].book_id = b /\ borrows[i].status = "borrowed"}

\* No request is being served.
BetweenRequests == \A p \in Procs : proc[p].pc \in {"idle", "done"}

IsDone(p, op) == proc[p].op = op /\ proc[p].pc = "done"

\* C1: in every reachable state each book is referenced by at most one
\* borrow record whose status is 'borrowed'.
C1_OneActiveBorrowPerBook ==
    \A b \in BookArgs : Cardinality(ActiveBorrowsOf(b)) <= 1

\* C2: of two create_borrow requests in flight together for the same
\* available book, by two eligible readers (the ledger holds no record but
\* theirs), exactly one succeeds and the other is rejected as
\* BookUnavailable.
C2_ExactlyOneCreateWins ==
    \A p, q \in Procs :
        ( /\ p # q
          /\ IsDone(p, "create_borrow") /\ IsDone(q, "create_borrow")
          /\ proc[p].given /\ proc[q].given
          /\ proc[p].book_id = proc[q].book_id
          /\ proc[p].reader_id # proc[q].reader_id
          /\ proc[p].book_id \in DOMAIN books
          /\ proc[p].reader_id \in DOMAIN readers
          /\ proc[q].reader_id \in DOMAIN readers
          /\ DOMAIN borrows \subseteq {proc[p].ret, proc[q].ret} )
        => \E w, l \in {p, q} :
              /\ w # l
              /\ proc[w].result = "ok"
              /\ proc[l].result = "BookUnavailable"

\* C3: in every reachable state no reader has more borrow records with
\* status 'borrowed' than the reader's max_borrow_count.
C3_WithinBorrowLimit ==
    \A r \in DOMAIN readers : CountBorrowed(r) <= readers[r].max_borrow_count

\* C4: between requests, every borrow record with status 'borrowed'
\* references a book whose status is 'borrowed'.
C4_ActiveBorrowOnBorrowedBook ==
    BetweenRequests =>
        \A i \in DOMAIN borrows :
            borrows[i].status = "borrowed" =>
                /\ borrows[i].book_id \in DOMAIN books
                /\ books[borrows[i].book_id].status = "borrowed"

\* The eligibility rules in their order: the first rule that fails, or
\* "eligible".
FirstFailedRule(r, b) ==
    IF r \notin DOMAIN readers \/ readers[r].status # "active" THEN "ReaderNotEligible"
    ELSE IF b \notin DOMAIN books THEN "BookNotFound"
    ELSE IF books[b].status = "lost" THEN "BookLost"
    ELSE IF books[b].status = "borrowed" THEN "BookUnavailable"
    ELSE IF ~(CountBorrowed(r) < readers[r].max_borrow_count) THEN "BorrowLimitReached"
    ELSE "eligible"

CbChecks == {"cb_reader", "cb_book", "cb_count"}
CbWrites == {"cb_connect", "cb_insert", "cb_update", "cb_commit", "cb_log"}

\* C5: create_borrow leaves its checks with the first failed rule of the
\* rules taken in their order (reader exists and is active, book exists,
\* book not lost, book not borrowed, count < max_borrow_count), and goes on
\* to its writes, and then succeeds, exactly when no rule fails.
C5_EligibilityInOrder ==
    [][\A p \in Procs :
          proc[p].op = "create_borrow" =>
            /\ (proc[p].pc \in CbChecks /\ proc'[p].pc \notin CbChecks) =>
                  LET v == FirstFailedRule(proc[p].reader_id, proc[p].book_id)
                  IN  IF v = "eligible"
                      THEN proc'[p].pc = "cb_connect"
                      ELSE proc'[p].pc = "done" /\ proc'[p].result = v
            /\ (proc[p].pc \in CbWrites /\ proc'[p].pc = "done") =>
                  proc'[p].result = "ok"
            /\ (proc[p].pc = "cb_commit" /\ proc'[p].pc # "cb_commit") =>
                  FirstFailedRule(proc[p].reader_id, proc[p].book_id) = "eligible"
      ]_vars

\* C5 witness: a reader whose count equals max_borrow_count was rejected
\* with BorrowLimitReached on a book that can be borrowed.
C5_Witness ==
    \E p \in Procs :
        /\ IsDone(p, "create_borrow")
        /\ proc[p].result = "BorrowLimitReached"
        /\ CountBorrowed(proc[p].reader_id) = readers[proc[p].reader_id].max_borrow_count
        /\ books[proc[p].book_id].status \in {"available", "damaged"}

\* C6: a successful create_borrow computes borrow_date = today and
\* due_date = today + borrow_days, adds exactly one record under a fresh
\* id with these dates, status 'borrowed', no return_date and renew_count
\* 0, leaves every other record alone, sets the book's status to
\* 'borrowed', and returns the new id.
C6_CreateBorrowEffect ==
    [][\A p \in Procs :
          proc[p].op = "create_borrow" =>
            /\ (proc[p].pc = "cb_count" /\ proc'[p].pc = "cb_connect") =>
                  /\ proc'[p].date = today
                  /\ proc'[p].due_date = today + proc[p].days
            /\ (proc[p].pc = "cb_commit" /\ proc'[p].pc = "cb_log") =>
                  LET i == proc[p].borrow_id
                  IN  /\ i \notin DOMAIN borrows
                      /\ DOMAIN borrows' = DOMAIN borrows \cup {i}
                      /\ \A j \in DOMAIN borrows : borrows'[j] = borrows[j]
                      /\ borrows'[i].reader_id = proc[p].reader_id
                      /\ borrows'[i].book_id = proc[p].book_id
                      /\ borrows'[i].status = "borrowed"
                      /\ borrows'[i].borrow_date = proc[p].date
                      /\ borrows'[i].due_date = proc[p].date + proc[p].days
                      /\ borrows'[i].return_date = NULL
                      /\ borrows'[i].renew_count = 0
                      /\ books'[proc[p].book_id].status = "borrowed"
            /\ (proc[p].pc # "done" /\ proc'[p].pc = "done" /\ proc'[p].result = "ok") =>
                  /\ proc'[p].ret = proc[p].borrow_id
                  /\ proc'[p].ret \in DOMAIN borrows
                  /\ borrows' = borrows
      ]_vars

\* C6 witness: a create_borrow issued on day 2 has succeeded.
C6_Witness ==
    \E p \in Procs :
        /\ IsDone(p, "create_borrow")
        /\ proc[p].result = "ok"
        /\ proc[p].date = 2
        /\ borrows[proc[p].ret].borrow_date = 2
        /\ borrows[proc[p].ret].due_date = 2 + proc[p].days
        /\ books[proc[p].book_id].status = "borrowed"

\* C7: create_borrow with borrow_days <= 0 is rejected with a validation
\* error, so every record's due_date is strictly later than its
\* borrow_date.
C7_NonPositiveDaysRejected ==
    /\ \A p \in Procs :
          (IsDone(p, "create_borrow") /\ proc[p].given /\ proc[p].days <= 0)
              => proc[p].result = "ValidationError"
    /\ \A i \in DOMAIN borrows : borrows[i].due_date > borrows[i].borrow_date

\* C8: a step of create_borrow's transaction either commits both writes
\* (the new 'borrowed' record and the book's status 'borrowed') or changes
\* neither table; a transaction that ends without committing answers with
\* an error.
C8_CreateBorrowAtomic ==
    [][\A p \in Procs :
          (proc[p].op = "create_borrow" /\ proc[p].pc \in CbWrites
             /\ proc'[p].pc # proc[p].pc) =>
            IF proc[p].pc = "cb_commit" /\ proc'[p].pc = "cb_log"
            THEN /\ proc[p].borrow_id \in DOMAIN borrows' \ DOMAIN borrows
                 /\ borrows'[proc[p].borrow_id].status = "borrowed"
                 /\ books'[proc[p].book_id].status = "borrowed"
            ELSE /\ borrows' = borrows
                 /\ books' = books
                 /\ (proc'[p].pc = "done" /\ proc[p].pc # "cb_log")
                        => proc'[p].result = "StorageError"
      ]_vars

\* C8 witness: a create_borrow failed after its INSERT had run, and neither
\* the record nor the book's status 'borrowed' is there.
C8_Witness ==
    \E p \in Procs :
        /\ IsDone(p, "create_borrow")
        /\ proc[p].result = "StorageError"
        /\ proc[p].borrow_id # 0
        /\ proc[p].borrow_id \notin DOMAIN borrows
        /\ books[proc[p].book_id].status = "available"

\* C9: return_book goes on to its writes only when a record with that id
\* and status 'borrowed' exists, and otherwise (a missing id, a record
\* already returned) answers NotFound and changes nothing; when it
\* succeeds the record is 'returned' with return_date = today and the
\* book is 'available'.
C9_ReturnBook ==
    [][\A p \in Procs :
          proc[p].op = "return_book" =>
            /\ (proc[p].pc = "rb_read" /\ proc'[p].pc # "rb_read") =>
                  LET i == proc[p].borrow_id
                  IN  /\ db' = db
                      /\ IF i \in DOMAIN borrows /\ borrows[i].status = "borrowed"
                         THEN /\ proc'[p].pc = "rb_update_borrow"
                              /\ proc'[p].date = today
                         ELSE /\ proc'[p].pc = "done"
                              /\ proc'[p].result = "NotFound"
            /\ (proc[p].pc # "done" /\ proc'[p].pc = "done" /\ proc'[p].result = "ok") =>
                  LET i == proc[p].borrow_id
                  IN  /\ borrows'[i].status = "returned"
                      /\ borrows'[i].return_date = Val(proc[p].date)
                      /\ books'[borrows'[i].book_id].status = "available"
      ]_vars

\* C9 witness: a second return_book on a record that was returned before
\* has been answered NotFound.
C9_Witness ==
    \E p \in Procs :
        /\ IsDone(p, "return_book")
        /\ proc[p].result = "NotFound"
        /\ proc[p].borrow_id \in DOMAIN borrows
        /\ borrows[proc[p].borrow_id].status = "returned"
        /\ borrows[proc[p].borrow_id].return_date # NULL
        /\ books[borrows[proc[p].borrow_id].book_id].status = "available"

\* C10: of two return_book requests in flight together for the same
\* borrowed record, at most one reports success.
C10_AtMostOneReturnAccepted ==
    \A p, q \in Procs :
        ( /\ p # q
          /\ IsDone(p, "return_book") /\ IsDone(q, "return_book")
          /\ proc[p].borrow_id = proc[q].borrow_id )
        => ~(proc[p].result = "ok" /\ proc[q].result = "ok")

\* C11: between requests, no record is 'returned' while its book is still
\* 'borrowed' with no 'borrowed' record to account for it: return_book's
\* two writes take effect together or not at all.
C11_ReturnAtomic ==
    BetweenRequests =>
        \A i \in DOMAIN borrows :
            (borrows[i].status = "returned"
               /\ books[borrows[i].book_id].status = "borrowed")
                => ActiveBorrowsOf(borrows[i].book_id) # {}

\* C12: every renewal that succeeds adds exactly 1 to the record's
\* renew_count and nothing else changes a renew_count, so the count is the
\* number of successful renewals; and a renew call on a 'borrowed' record
\* whose count is 2 fails with RenewalLimitExceeded, whatever the
\* extend_days in 1..90, leaving every table as it was.
C12_ThirdRenewalRefused ==
    [][/\ \A j \in DOMAIN borrows :
            borrows'[j].renew_count =
                IF \E q \in Procs :
                      /\ proc[q].op = "renew_book" /\ proc[q].borrow_id = j
                      /\ proc[q].pc = "rn_update" /\ proc'[q].pc = "rn_log"
                THEN borrows[j].renew_count + 1
                ELSE borrows[j].renew_count
       /\ \A p \in Procs :
          /\ (proc[p].op = "renew_book" /\ proc[p].pc = "rn_log" /\ proc'[p].pc = "done")
                => /\ proc'[p].result = "ok"
                   /\ borrows[proc[p].borrow_id].renew_count \in 1 .. MaxRenewCount
          /\ ( /\ proc[p].op = "renew_book"
               /\ proc[p].pc = "rn_read" /\ proc'[p].pc # "rn_read"
               /\ proc[p].borrow_id \in DOMAIN borrows
               /\ borrows[proc[p].borrow_id].status = "borrowed"
               /\ borrows[proc[p].borrow_id].renew_count = MaxRenewCount )
                => /\ proc'[p].pc = "done"
                   /\ proc'[p].result = "RenewalLimitExceeded"
                   /\ db' = db
      ]_vars

\* C12 witness: a third renew call, for the longest period, was refused on
\* a record renewed twice.
C12_Witness ==
    \E p \in Procs :
        /\ IsDone(p, "renew_book")
        /\ proc[p].result = "RenewalLimitExceeded"
        /\ proc[p].days = MaxExtendDays
        /\ borrows[proc[p].borrow_id].status = "borrowed"
        /\ borrows[proc[p].borrow_id].renew_count = MaxRenewCount

\* C13: in every reachable state every record's renew_count is in 0..2,
\* also when renew requests for one record are in flight together.
C13_RenewCountWithinCap ==
    \A i \in DOMAIN borrows : borrows[i].renew_count \in 0 .. MaxRenewCount

\* C14: the write of a successful renew sets due_date to the record's
\* current due_date plus extend_days and adds exactly 1 to renew_count
\* (so the due_date is the original plus every successful extension,
\* however the requests are issued), and the call returns that due_date.
C14_RenewExtendsCurrentDueDate ==
    [][\A p \in Procs :
          proc[p].op = "renew_book" =>
            /\ (proc[p].pc = "rn_update" /\ proc'[p].pc = "rn_log") =>
                  LET i == proc[p].borrow_id
                  IN  /\ borrows'[i].due_date = borrows[i].due_date + proc[p].days
                      /\ borrows'[i].renew_count = borrows[i].renew_count + 1
            /\ (proc[p].pc = "rn_log" /\ proc'[p].pc = "done") =>
                  proc'[p].ret = borrows[proc[p].borrow_id].due_date
      ]_vars

\* C15: a renew call whose extend_days is given and is not an integer in
\* 1..90 is answered with a validation error.
C15_ExtendDaysValidated ==
    \A p \in Procs :
        ( /\ IsDone(p, "renew_book")
          /\ proc[p].given
          /\ ~(proc[p].kind = "int" /\ proc[p].days \in MinExtendDays .. MaxExtendDays) )
        => proc[p].result = "ValidationError"

\* C16: a renew call leaves its lookup with NotFound exactly when no
\* record has that id or the record's status is not 'borrowed' (returned,
\* reserved, damaged, lost, fined), and then no table changes; no step of
\* a call answered NotFound changes a due_date or a renew_count.
C16_RenewNeedsBorrowedRecord ==
    [][\A p \in Procs :
          (proc[p].op = "renew_book" /\ proc[p].pc = "rn_read"
             /\ proc'[p].pc # "rn_read") =>
            LET i == proc[p].borrow_id
            IN  IF i \in DOMAIN borrows /\ borrows[i].status = "borrowed"
                THEN proc'[p].result # "NotFound"
                ELSE /\ proc'[p].pc = "done"
                     /\ proc'[p].result = "NotFound"
                     /\ db' = db
      ]_vars

\* C16 witness: renew calls were answered NotFound on a record of each
\* status but 'borrowed' (here: one that is 'fined' and was renewed
\* before), its due_date and renew_count as they were.
C16_Witness ==
    \E p \in Procs :
        /\ IsDone(p, "renew_book")
        /\ proc[p].result = "NotFound"
        /\ proc[p].borrow_id \in DOMAIN borrows
        /\ borrows[proc[p].borrow_id].status = "fined"
        /\ borrows[proc[p].borrow_id].renew_count = 1
        /\ borrows[proc[p].borrow_id].due_date = 2 + DefaultExtendDays

UbWrites == {"ub_connect", "ub_update_borrow", "ub_update_book", "ub_commit", "ub_log"}

\* C17: the commit of a mark_status(borrow_id, s) sets the record's status
\* to s (and its return_date to the date of the write when s is
\* 'returned') and no other column, sets the referenced book's status to
\* 'available' for returned, 'damaged' for damaged, 'lost' for lost and
\* leaves it for borrowed and reserved, and changes no other book, reader
\* or record; no other step of the call changes a table, and the call
\* reports success only after its commit.
C17_MarkStatusEffect ==
    [][\A p \in Procs :
          proc[p].op = "update_borrow_status" =>
            /\ (proc[p].pc = "ub_update_borrow"
                  /\ proc'[p].pc \in {"ub_update_book", "ub_commit"}) =>
                  proc'[p].date = today
            /\ (proc[p].pc = "ub_commit" /\ proc'[p].pc = "ub_log") =>
                  LET i == proc[p].borrow_id
                      b == borrows[i].book_id
                      s == proc[p].status
                  IN  /\ borrows' = [borrows EXCEPT
                             ![i] = [borrows[i] EXCEPT
                                       !.status = s,
                                       !.return_date = IF s = "returned"
                                                       THEN Val(proc[p].date)
                                                       ELSE borrows[i].return_date]]
                      /\ books' = [books EXCEPT
                             ![b].status = IF s = "returned" THEN "available"
                                           ELSE IF s = "damaged" THEN "damaged"
                                           ELSE IF s = "lost" THEN "lost"
                                           ELSE books[b].status]
                      /\ readers' = readers
            /\ (proc[p].pc # "ub_commit" /\ proc'[p] # proc[p]) => db' = db
            /\ (proc[p].pc # "done" /\ proc'[p].pc = "done" /\ proc'[p].result = "ok")
                  => proc[p].pc = "ub_log"
      ]_vars

\* C17 witness: mark_status(1, 'returned') has succeeded on day 2 on a
\* record borrowed on day 1, after record 2 was marked 'damaged': record 1
\* is 'returned' on day 2 and its book 'available', record 2 and its book
\* are still 'damaged'.
C17_Witness ==
    \E p \in Procs :
        /\ IsDone(p, "update_borrow_status")
        /\ proc[p].result = "ok"
        /\ proc[p].status = "returned"
        /\ proc[p].borrow_id = 1
        /\ borrows[1].status = "returned"
        /\ borrows[1].return_date = Val(2)
        /\ books[borrows[1].book_id].status = "available"
        /\ borrows[2].status = "damaged"
        /\ books[borrows[2].book_id].status = "damaged"

\* C18: a mark_status whose status is not one of borrowed, returned,
\* reserved, damaged, lost (so 'fined', 'overdue') is answered with a
\* validation error at once, and one whose borrow_id names no record with
\* NotFound, neither changing a table; a commit of mark_status writes one
\* of the five statuses into an existing record.
C18_MarkStatusRejects ==
    [][\A p \in Procs :
          LET five == {"borrowed", "returned", "reserved", "damaged", "lost"}
          IN  /\ ( /\ proc[p].pc = "idle"
                   /\ proc'[p].op = "update_borrow_status"
                   /\ proc'[p].given
                   /\ proc'[p].status \notin five )
                    => /\ proc'[p].pc = "done"
                       /\ proc'[p].result = "ValidationError"
                       /\ db' = db
              /\ ( /\ proc[p].op = "update_borrow_status"
                   /\ proc[p].pc = "ub_read" /\ proc'[p].pc # "ub_read"
                   /\ proc[p].borrow_id \notin DOMAIN borrows )
                    => /\ proc'[p].pc = "done"
                       /\ proc'[p].result = "NotFound"
                       /\ db' = db
              /\ ( /\ proc[p].op = "update_borrow_status"
                   /\ proc[p].pc = "ub_commit" /\ proc'[p].pc = "ub_log" )
                    => /\ proc[p].status \in five
                       /\ proc[p].borrow_id \in DOMAIN borrows
      ]_vars

\* C18 witness: mark_status(id, 'fined') on an existing 'borrowed' record
\* was answered with a validation error, the record still 'borrowed'.
C18_Witness ==
    \E p \in Procs :
        /\ IsDone(p, "update_borrow_status")
        /\ proc[p].given
        /\ proc[p].status = "fined"
        /\ proc[p].result = "ValidationError"
        /\ proc[p].borrow_id \in DOMAIN borrows
        /\ borrows[proc[p].borrow_id].status = "borrowed"

\* C19: a step of mark_status's transaction either commits the record's
\* new status together with the book's mirrored status, or changes
\* neither table; a transaction that ends without committing answers with
\* an error.
C19_MarkStatusAtomic ==
    [][\A p \in Procs :
          (proc[p].op = "update_borrow_status" /\ proc[p].pc \in UbWrites
             /\ proc'[p].pc # proc[p].pc) =>
            IF proc[p].pc = "ub_commit" /\ proc'[p].pc = "ub_log"
            THEN LET i == proc[p].borrow_id
                     s == proc[p].status
                 IN  /\ borrows'[i].status = s
                     /\ s = "returned" => books'[borrows[i].book_id].status = "available"
                     /\ s = "damaged" => books'[borrows[i].book_id].status = "damaged"
                     /\ s = "lost" => books'[borrows[i].book_id].status = "lost"
            ELSE /\ borrows' = borrows
                 /\ books' = books
                 /\ (proc'[p].pc = "done" /\ proc[p].pc # "ub_log")
                        => proc'[p].result = "StorageError"
      ]_vars

\* C19 witness: a mark_status(id, 'lost') failed after its first UPDATE
\* had run; the record is still 'borrowed' and so is its book.
C19_Witness ==
    \E p \in Procs :
        /\ IsDone(p, "update_borrow_status")
        /\ proc[p].result = "StorageError"
        /\ proc[p].status = "lost"
        /\ proc[p].date # 0
        /\ borrows[proc[p].borrow_id].status = "borrowed"
        /\ books[borrows[proc[p].borrow_id].book_id].status = "borrowed"

C21_DamagedLostStay ==
    [][\A b \in DOMAIN books :
          (books[b].status \in {"damaged", "lost"} /\ b \in DOMAIN books')
              => books'[b].status \notin {"available", "borrowed"}
      ]_vars

\* C22: the write of apply_fine(borrow_id, amount) sets the record's
\* fine_amount to amount and its status to 'fined' and changes no other
\* column of it, no other record, no book and no reader; no other step of
\* the call changes a table, and the call reports success only after the
\* write.
C22_ApplyFineEffect ==
    [][\A p \in Procs :
          proc[p].op = "apply_fine" =>
            /\ (proc[p].pc = "af_update" /\ proc'[p].pc = "af_log") =>
                  LET i == proc[p].borrow_id
                  IN  /\ borrows' = [borrows EXCEPT
                             ![i] = [borrows[i] EXCEPT
                                       !.fine_amount = Val(proc[p].amount),
                                       !.status = "fined"]]
                      /\ books' = books
                      /\ readers' = readers
            /\ (proc[p].pc # "af_update" /\ proc'[p] # proc[p]) => db' = db
            /\ (proc[p].pc # "done" /\ proc'[p].pc = "done" /\ proc'[p].result = "ok")
                  => proc[p].pc = "af_log"
      ]_vars

\* C22 witness: apply_fine has succeeded on a record that was 'returned':
\* the record is 'fined' with the amount, its return_date kept, its book
\* still 'available'.
C22_Witness ==
    \E p \in Procs :
        /\ IsDone(p, "apply_fine")
        /\ proc[p].result = "ok"
        /\ borrows[proc[p].borrow_id].status = "fined"
        /\ borrows[proc[p].borrow_id].fine_amount = Val(proc[p].amount)
        /\ borrows[proc[p].borrow_id].return_date # NULL
        /\ books[borrows[proc[p].borrow_id].book_id].status = "available"

\* C23: apply_fine with a missing, zero or negative amount is answered with
\* a validation error at once, and apply_fine on an id that names no
\* record with NotFound, neither changing a table; and every record's
\* fine_amount is unset or greater than 0.
C23_FineValidated ==
    [][/\ \A p \in Procs :
            /\ ( /\ proc[p].pc = "idle"
                 /\ proc'[p].op = "apply_fine"
                 /\ (~proc'[p].given \/ proc'[p].amount <= 0) )
                  => /\ proc'[p].pc = "done"
                     /\ proc'[p].result = "ValidationError"
                     /\ db' = db
            /\ ( /\ proc[p].op = "apply_fine"
                 /\ proc[p].pc = "af_read" /\ proc'[p].pc # "af_read"
                 /\ proc[p].borrow_id \notin DOMAIN borrows )
                  => /\ proc'[p].pc = "done"
                     /\ proc'[p].result = "NotFound"
                     /\ db' = db
       /\ \A i \in DOMAIN borrows' :
            \/ borrows'[i].fine_amount = NULL
            \/ borrows'[i].fine_amount[1] > 0
      ]_vars

\* C23 witness: apply_fine with a negative amount on an existing record was
\* answered with a validation error, the record's fine_amount still unset.
C23_Witness ==
    \E p \in Procs :
        /\ IsDone(p, "apply_fine")
        /\ proc[p].given
        /\ proc[p].amount < 0
        /\ proc[p].result = "ValidationError"
        /\ proc[p].borrow_id \in DOMAIN borrows
        /\ borrows[proc[p].borrow_id].fine_amount = NULL

\* Whether every write of the request served by p is in the tables (one
\* request at a time, so nothing else has written since).
AllWritesCommitted(p) ==
    LET i == proc[p].borrow_id
    IN  /\ i \in DOMAIN borrows
        /\ CASE proc[p].op = "create_borrow" ->
                   /\ borrows[i].status = "borrowed"
                   /\ books[proc[p].book_id].status = "borrowed"
              [] proc[p].op = "return_book" ->
                   /\ borrows[i].status = "returned"
                   /\ borrows[i].return_date = Val(proc[p].date)
                   /\ books[borrows[i].book_id].status = "available"
              [] proc[p].op = "renew_book" ->
                   borrows[i].due_date = proc[p].due_date
              [] proc[p].op = "update_borrow_status" ->
                   borrows[i].status = proc[p].status
              [] proc[p].op = "apply_fine" ->
                   /\ borrows[i].status = "fined"
                   /\ borrows[i].fine_amount = Val(proc[p].amount)
              [] OTHER -> TRUE

LifecycleOps ==
    {"create_borrow", "return_book", "renew_book", "update_borrow_status", "apply_fine"}

\* C24: a lifecycle request appends at most one audit event, naming its
\* action and its borrow id, and appends it only when every write of the
\* request has been committed; a request that succeeds while the audit log
\* can be written appends one.
C24_AuditAfterCommit ==
    [][\A p \in Procs :
          proc'[p].op \in LifecycleOps =>
            /\ Len(proc'[p].logged) <= 1
            /\ (proc'[p].logged # << >> /\ proc[p].logged = << >>) =>
                  /\ proc'[p].logged[1].action = proc[p].op
                  /\ proc'[p].logged[1].target_id = proc[p].borrow_id
                  /\ AllWritesCommitted(p)
            /\ (proc[p].pc # "done" /\ proc'[p].pc = "done"
                   /\ proc'[p].result = "ok" /\ dbUp)
                  => proc'[p].logged # << >>
      ]_vars

\* C25: the step that logs a committed create_borrow or return_book
\* changes no table and answers with success whether or not the audit
\* event could be appended, and no later step takes a record out of the
\* ledger.
C25_AuditFailureHarmless ==
    [][/\ \A p \in Procs :
            (proc[p].pc \in {"cb_log", "rb_log"} /\ proc'[p].pc # proc[p].pc)
                => /\ db' = db
                   /\ proc'[p].pc = "done"
                   /\ proc'[p].result = "ok"
                   /\ Len(proc'[p].logged) = IF dbUp THEN 1 ELSE 0
       /\ \A i \in DOMAIN borrows : i \in DOMAIN borrows'
      ]_vars

\* C25 witness: a create_borrow answered with success although its audit
\* event was not appended; its record and the book's status are committed.
C25_Witness ==
    \E p \in Procs :
        /\ IsDone(p, "create_borrow")
        /\ proc[p].result = "ok"
        /\ proc[p].logged = << >>
        /\ borrows[proc[p].ret].status = "borrowed"
        /\ books[proc[p].book_id].status = "borrowed"

\* C26: a return_book, renew, mark_status or apply_fine request that
\* reports success has committed every one of its writes.
C26_SuccessMeansCommitted ==
    \A p \in Procs :
        ( /\ proc[p].pc = "done"
          /\ proc[p].result = "ok"
          /\ proc[p].op \in LifecycleOps \ {"create_borrow"} )
        => AllWritesCommitted(p)

StoredStatuses == {"borrowed", "returned", "reserved", "damaged", "lost", "fined"}

C28_NoDeleteUnderActiveBorrow ==
    [][/\ \A b \in DOMAIN books \ DOMAIN books' :
            ~\E i \in DOMAIN borrows :
                borrows[i].book_id = b /\ borrows[i].status = "borrowed"
       /\ \A r \in DOMAIN readers \ DOMAIN readers' :
            ~\E i \in DOMAIN borrows :
                borrows[i].reader_id = r /\ borrows[i].status = "borrowed"
       /\ \A i \in DOMAIN borrows \ DOMAIN borrows' : borrows[i].status # "borrowed"
       /\ \A i \in DOMAIN borrows' :
            borrows'[i].status = "borrowed" =>
                ReferencedRowsExist(borrows'[i].reader_id, borrows'[i].book_id)
      ]_vars

\* C29: under create_borrow, return_book, renew_book, update_borrow_status
\* and apply_fine every record stays in the ledger with the same id,
\* reader_id, book_id and borrow_date; the ledger grows only at the commit
\* of a create_borrow, by the one record of that request.
C29_LedgerAppendOnly ==
    [][/\ \A i \in DOMAIN borrows :
            /\ i \in DOMAIN borrows'
            /\ borrows'[i].reader_id = borrows[i].reader_id
            /\ borrows'[i].book_id = borrows[i].book_id
            /\ borrows'[i].borrow_date = borrows[i].borrow_date
       /\ DOMAIN borrows' # DOMAIN borrows =>
            \E p \in Procs :
                /\ proc[p].op = "create_borrow"
                /\ proc[p].pc = "cb_commit"
                /\ proc'[p].pc = "cb_log"
                /\ proc[p].borrow_id \notin DOMAIN borrows
                /\ DOMAIN borrows' = DOMAIN borrows \cup {proc[p].borrow_id}
      ]_vars

\* C29 witness: record 1 has been renewed and then returned, its reader,
\* book and borrow date being those it was created with, and a later
\* create_borrow has added record 2.
C29_Witness ==
    /\ DOMAIN borrows = {1, 2}
    /\ borrows[1].status = "returned"
    /\ borrows[1].renew_count > 0
    /\ borrows[1].reader_id = 1
    /\ borrows[1].book_id = 1
    /\ borrows[1].borrow_date = 1
    /\ \E p \in Procs : IsDone(p, "apply_fine") /\ proc[p].result = "ok"

\* C30: the commit of a create_borrow raises its reader's count of
\* borrowed records by one and the record update of a return_book lowers
\* it by one, no other reader's count changing; and when a return_book of
\* a loan has answered with success, the book of that loan is 'available'
\* and a create_borrow of the same book by the same reader passes every
\* eligibility rule again.
C30_BorrowReturnRoundTrip ==
    [][\A p \in Procs :
          /\ (proc[p].pc = "cb_commit" /\ proc'[p].pc = "cb_log") =>
                \A r \in ReaderIds :
                    CountBorrowed(r)' =
                        CountBorrowed(r) + (IF r = proc[p].reader_id THEN 1 ELSE 0)
          /\ (proc[p].pc = "rb_update_borrow" /\ proc'[p].pc = "rb_update_book") =>
                \A r \in ReaderIds :
                    CountBorrowed(r)' =
                        CountBorrowed(r)
                          - (IF r = borrows[proc[p].borrow_id].reader_id THEN 1 ELSE 0)
          /\ (proc[p].op = "return_book" /\ proc[p].pc = "rb_log"
                 /\ proc'[p].pc = "done" /\ proc'[p].result = "ok") =>
                LET i == proc[p].borrow_id
                IN  /\ books'[borrows'[i].book_id].status = "available"
                    /\ FirstFailedRule(borrows[i].reader_id, borrows[i].book_id)'
                         = "eligible"
      ]_vars

\* C30 witness: record 1 was borrowed and returned, and the same reader
\* has borrowed the same book again as record 2.
C30_Witness ==
    /\ DOMAIN borrows = {1, 2}
    /\ borrows[1].status = "returned"
    /\ borrows[2].status = "borrowed"
    /\ borrows[2].book_id = borrows[1].book_id
    /\ borrows[2].reader_id = borrows[1].reader_id
    /\ books[borrows[2].book_id].status = "borrowed"
    /\ CountBorrowed(borrows[2].reader_id) = 1

CbRejections ==
    {"ValidationError", "ReaderNotEligible", "BookNotFound", "BookLost",
     "BookUnavailable", "BorrowLimitReached"}

\* C31: a create_borrow request is turned away only before its
\* transaction, no step it takes up to there changes the ledger, a book or
\* a reader, and the rejection it gets is determined by the request and
\* the tables alone (a missing field, else the first rule that fails), so
\* that the same request in the same state gets the same rejection.
C31_RejectionHasNoEffect ==
    [][\A p \in Procs :
          proc'[p].op = "create_borrow" =>
            /\ (proc[p].pc \in {"idle"} \cup CbChecks
                   /\ proc'[p].pc \in CbChecks \cup {"done"}) =>
                  /\ borrows' = borrows
                  /\ books' = books
                  /\ readers' = readers
            /\ (proc[p].pc # "done" /\ proc'[p].pc = "done"
                   /\ proc'[p].result \in CbRejections) =>
                  /\ proc[p].pc \in {"idle"} \cup CbChecks
                  /\ proc'[p].result =
                        IF ~proc'[p].given THEN "ValidationError"
                        ELSE FirstFailedRule(proc'[p].reader_id, proc'[p].book_id)
      ]_vars

\* C31 witness: the same create_borrow was turned away at the limit with
\* the ledger holding the one record it held before the request.
C31_Witness ==
    \E p \in Procs :
        /\ IsDone(p, "create_borrow")
        /\ proc[p].result = "BorrowLimitReached"
        /\ DOMAIN borrows = {1}
        /\ borrows[1].status = "borrowed"
        /\ books[proc[p].book_id].status = "available"

\* C32: a create_borrow whose reader lookup, book lookup or count of
\* borrowed records is not answered by the storage ends at that step with
\* an error, and goes on to its transaction only after a count that was
\* read and is below the reader's limit.
C32_FailedReadStopsCreateBorrow ==
    [][\A p \in Procs :
          (proc[p].op = "create_borrow" /\ proc[p].pc \in CbChecks
             /\ proc'[p].pc # proc[p].pc) =>
            /\ ~dbUp => (proc'[p].pc = "done" /\ proc'[p].result # "ok")
            /\ proc'[p].pc = "cb_connect" =>
                  /\ dbUp
                  /\ CountBorrowed(proc[p].reader_id) < proc[p].max_borrow_count
      ]_vars

\* C33: between requests, every book whose status is 'borrowed' is
\* referred to by a record whose status is 'borrowed'.
C33_BorrowedBookHasActiveBorrow ==
    BetweenRequests =>
        \A b \in DOMAIN books :
            books[b].status = "borrowed" =>
                \E i \in DOMAIN borrows :
                    borrows[i].book_id = b /\ borrows[i].status = "borrowed"

\* C34: a record's status changes to 'returned', 'damaged' or 'lost' only
\* from 'borrowed', and a record whose status is not 'borrowed' does not
\* become 'borrowed'.
C34_RecordStateMachine ==
    [][\A i \in DOMAIN borrows \cap DOMAIN borrows' :
          /\ (borrows'[i].status \in {"returned", "damaged", "lost"}
                 /\ borrows'[i].status # borrows[i].status) =>
                borrows[i].status = "borrowed"
          /\ borrows[i].status # "borrowed" => borrows'[i].status # "borrowed"
      ]_vars

\* C35: a step of add_book, update_book, update_reader, list_borrows,
\* renew or apply_fine leaves the status of every book as it is; add_book
\* alone adds a book, and the book it adds is 'available' whatever its
\* body carries.
C35_BookStatusOwnedByLifecycle ==
    [][\A p \in Procs :
          (proc'[p] # proc[p]
             /\ proc'[p].op \in {"add_book", "update_book", "update_reader",
                                 "get_borrows", "renew_book", "apply_fine"}) =>
            /\ \A b \in DOMAIN books :
                  b \in DOMAIN books' /\ books'[b].status = books[b].status
            /\ \A b \in DOMAIN books' \ DOMAIN books :
                  proc'[p].op = "add_book" /\ books'[b].status = "available"
      ]_vars

\* C35 witness: an update_book whose body carried a title and the status
\* 'lost' has changed the title of the book on loan, an add_book whose
\* body carried the status 'lost' has added book 3, and book 1 is still
\* 'borrowed' and book 3 'available'.
C35_Witness ==
    \E p \in Procs :
        /\ IsDone(p, "add_book")
        /\ proc[p].result = "ok"
        /\ "status" \in DOMAIN proc[p].data
        /\ proc[p].data.status = "lost"
        /\ 3 \in DOMAIN books
        /\ books[3].status = "available"
        /\ books[1].title = "t2"
        /\ books[1].status = "borrowed"

\* C36: in every reachable state every reader's max_borrow_count is at
\* least 1.
C36_MaxBorrowCountPositive ==
    \A r \in DOMAIN readers : readers[r].max_borrow_count >= 1

\* C37: after every step each record whose status is 'returned' has a
\* return_date; a record enters the ledger without one; and a record's
\* return_date is written only by the record update of a return_book or
\* by the commit of a mark_status(returned) on that record, which leave
\* it 'returned'.
C37_ReturnedHasReturnDate ==
    [][\A i \in DOMAIN borrows' :
          /\ borrows'[i].status = "returned" => borrows'[i].return_date # NULL
          /\ i \notin DOMAIN borrows => borrows'[i].return_date = NULL
          /\ (i \in DOMAIN borrows
                 /\ borrows'[i].return_date # borrows[i].return_date) =>
                /\ borrows'[i].status = "returned"
                /\ \E p \in Procs :
                      /\ proc[p].borrow_id = i
                      /\ \/ proc[p].op = "return_book"
                               /\ proc[p].pc = "rb_update_borrow"
                         \/ proc[p].op = "update_borrow_status"
                               /\ proc[p].pc = "ub_commit"
                               /\ proc[p].status = "returned"
      ]_vars

\* C37 witness: record 1 is 'returned' with its return date, a
\* mark_status(2, 'returned') has succeeded on the record a create_borrow
\* added, and record 2 holds the date of that request.
C37_Witness ==
    \E p \in Procs :
        /\ IsDone(p, "update_borrow_status")
        /\ proc[p].result = "ok"
        /\ proc[p].status = "returned"
        /\ proc[p].borrow_id = 2
        /\ borrows[2].status = "returned"
        /\ borrows[2].return_date = Val(proc[p].date)
        /\ borrows[1].status = "returned"
        /\ borrows[1].return_date # NULL

====
